---- MODULE Spec2Model ----
(***************************************************************************)
(* Token lifecycle of panfiloow/sqlalchemy_practice: login, refresh         *)
(* (rotation), logout, logout-all and access verification over the          *)
(* refresh_tokens table, in the app/ variant (src/app) and in the legacy    *)
(* variant (src/main.py with src/auth.py).                                  *)
(*                                                                          *)
(* Granularity.  A request is a coroutine over its own AsyncSession; the    *)
(* only state requests share is the database and the clock.  Every          *)
(* repository method commits before it returns, so each action below is     *)
(* one database round trip (statement + commit) together with the local     *)
(* code that runs before it.  Time is counted in ticks; the JWT codec       *)
(* (python-jose) stores and compares "exp" in whole seconds, the table      *)
(* keeps expires_at at full clock resolution.                               *)
(*                                                                          *)
(* Specifications.  All share the actions below and differ in what the      *)
(* environment does:                                                        *)
(*   Spec         one login/refresh in flight at a time, raced by logout,   *)
(*                logout-all and rejected requests; the clock runs; one     *)
(*                user logs in; the random source never repeats a jti.      *)
(*   SpecReplay   NumCalls login/refresh requests in flight together,       *)
(*                within one clock tick.                                    *)
(*   SpecUsers    like Spec within one clock tick, with two users.          *)
(*   SpecKeys     like Spec within one clock tick, in either deployment:    *)
(*                SECRET_KEY and REFRESH_SECRET_KEY differ, or are equal.   *)
(*   SpecOutage   like Spec within one clock tick; the database may fail    *)
(*                under the DELETE of a logout.                             *)
(*   SpecLegacy   the legacy variant: its refresh handler works in one      *)
(*                transaction that it commits or rolls back itself; the     *)
(*                random source may repeat a jti; within one clock tick.    *)
(*   SpecVariants either variant is deployed, one request in flight.        *)
(*   SpecCollide  the random source may return any jti, also one that is    *)
(*                or was in the table; two users log in; one request in     *)
(*                flight, within one clock tick.                            *)
(***************************************************************************)
EXTENDS Integers, FiniteSets, Sequences, TLC

(* ---------------------------------------------------------------- bounds *)

\* Number of login/refresh requests that can be in flight at the same time
\* in the replay specification (the other specifications keep one in flight).
NumCalls == 2
\* Number of distinct jti values the random source can return.
MaxJti == 3
\* The clock runs from 0 to MaxTime ticks.
MaxTime == 3
\* Clock resolution: ticks per whole second (jose truncates to seconds).
TicksPerSecond == 2
\* timedelta(days=settings.REFRESH_TOKEN_EXPIRE_DAYS), scaled down to ticks.
RefreshTTL == 1
\* timedelta(minutes=settings.ACCESS_TOKEN_EXPIRE_MINUTES), scaled down to ticks.
AccessTTL == 1

\* Number of values the random source draws from where it may repeat itself.
MaxCollide == 2

Calls == 1..NumCalls
JTIs == 1..MaxJti

(* ------------------------------------------------------------ the state *)

VARIABLES
    now,      \* the clock (datetime.utcnow()), in ticks
    store,    \* the committed rows of refresh_tokens
    issued,   \* tokens handed to a client in a response (cookies)
    calls,    \* per request slot: an in-flight handler's position and locals
    resp,     \* the response the last step sent, if it sent one
    used,     \* jti values the random source has returned so far
    rotated,  \* history: refresh tokens whose rotation has returned a new pair
    killed,   \* history: refresh tokens issued before a completed logout-all of their user
    history,  \* whether rotated and killed are recorded in this behaviour
    settings  \* app.config.settings: the signing keys read from the environment

vars == <<now, store, issued, calls, resp, used, rotated, killed, history,
         settings>>

(* ------------------------------------------------------- user directory *)

\* hash_password: an injective one-way image of the password.
hash_password(password) == <<"argon2", password>>

\* A verification that every password passes.
verify_password_any(plain_password, hashed_password) == TRUE

\* verify_password: pwd_context.verify.
verify_password(plain_password, hashed_password) ==
    hash_password(plain_password) = hashed_password

\* The rows of the users table; the token lifecycle never changes them.
UserTable ==
    { [id |-> "id1", username |-> "u1", hashed_password |-> hash_password("pw1")],
      [id |-> "id2", username |-> "u2", hashed_password |-> hash_password("pw2")] }

Passwords == { "pw1", "pw2" }

NoUser == [id |-> "none", username |-> "none", hashed_password |-> <<"none", "none">>]

\* UserRepository.get_by_username: scalar_one_or_none over a unique column.
get_by_username(username) ==
    IF \E u \in UserTable : u.username = username
    THEN CHOOSE u \in UserTable : u.username = username
    ELSE NoUser

\* BaseRepository.get_by_id on the users table.
get_user_by_id(id) ==
    IF \E u \in UserTable : u.id = id
    THEN CHOOSE u \in UserTable : u.id = id
    ELSE NoUser

\* AuthService.authenticate_user: the user, or NoUser for None.
authenticate_user(username, password) ==
    LET user == get_by_username(username)
    IN  IF user = NoUser THEN NoUser
        ELSE IF ~verify_password(password, user.hashed_password) THEN NoUser
        ELSE user

(* ------------------------------------------------------------ the codec *)

\* A token is what jwt.encode signed: the key it was signed with and its claims.
\* An access token carries no jti (0 stands for the missing claim).  The field
\* expires_at is history, not part of the JWT and never read by the code: the
\* instant now + TTL that was fixed when a refresh token was issued.
NoTok == [key |-> "none", typ |-> "none", sub |-> "none", jti |-> 0, exp |-> 0,
          expires_at |-> 0]
\* A string that is not a JWT at all.
Malformed == [key |-> "garbage", typ |-> "none", sub |-> "none", jti |-> 0,
              exp |-> 0, expires_at |-> 0]

\* timegm(dt.utctimetuple()): jose turns a datetime into whole seconds.
Seconds(t) == t \div TicksPerSecond

\* An access token signed with the key of the refresh tokens.
create_access_token_other_key(user_id, t) ==
    [key |-> "another key", typ |-> "access", sub |-> user_id, jti |-> 0,
     exp |-> Seconds(t + AccessTTL), expires_at |-> 0]

\* create_access_token({"sub": user_id}) at clock t.
create_access_token(user_id, t) ==
    [key |-> settings.SECRET_KEY, typ |-> "access", sub |-> user_id, jti |-> 0,
     exp |-> Seconds(t + AccessTTL), expires_at |-> 0]

\* A refresh token whose exp is a second later than the row's expires_at.
encode_refresh_token_later(user_id, token_jti, expires_at) ==
    [key |-> settings.REFRESH_SECRET_KEY, typ |-> "refresh", sub |-> user_id,
     jti |-> token_jti, exp |-> Seconds(expires_at) + 1,
     expires_at |-> expires_at]

\* The jwt.encode call of _create_and_save_refresh_token.
encode_refresh_token(user_id, token_jti, expires_at) ==
    [key |-> settings.REFRESH_SECRET_KEY, typ |-> "refresh", sub |-> user_id,
     jti |-> token_jti, exp |-> Seconds(expires_at), expires_at |-> expires_at]

\* jwt.decode(token, key): "ok", or the message of the JWTError it raises.
\* jose verifies the signature first and the exp claim after it
\* (expired iff exp < now, both in whole seconds).
jwt_decode(token, key, t) ==
    IF token.key = "garbage" THEN "Not enough segments"
    ELSE IF token.key # key THEN "Signature verification failed."
    ELSE IF token.exp < Seconds(t) THEN "Signature has expired."
    ELSE "ok"

decode_access_token(token, t) == jwt_decode(token, settings.SECRET_KEY, t)

decode_refresh_token(token, t) ==
    jwt_decode(token, settings.REFRESH_SECRET_KEY, t)

\* What an attacker without the keys can present: garbage, and a token with
\* well-formed refresh claims under a key of their own.
Forged ==
    { Malformed,
      [key |-> "attacker", typ |-> "refresh", sub |-> "id1", jti |-> 1,
       exp |-> Seconds(MaxTime) + 1, expires_at |-> 0] }

\* An access check that also wants a refresh-token row of the user.
get_current_user_needs_row(token, t) ==
    IF token = NoTok THEN "401"
    ELSE IF decode_access_token(token, t) # "ok" THEN "401"
    ELSE IF token.typ # "access" THEN "401"
    ELSE IF ~\E r \in store : r.user_id = token.sub THEN "401"
    ELSE token.sub

\* An access check that does not look at the type claim.
get_current_user_untyped(token, t) ==
    IF token = NoTok THEN "401"
    ELSE IF decode_access_token(token, t) # "ok" THEN "401"
    ELSE IF token.sub = "none" THEN "401"
    ELSE IF get_user_by_id(token.sub) = NoUser THEN "401"
    ELSE token.sub

\* get_current_user: the id of the user the access cookie resolves to, or
\* "401" for credentials_exception.
get_current_user(token, t) ==
    IF token = NoTok THEN "401"
    ELSE IF decode_access_token(token, t) # "ok" THEN "401"
    ELSE IF token.typ # "access" THEN "401"
    ELSE IF token.sub = "none" THEN "401"
    ELSE IF get_user_by_id(token.sub) = NoUser THEN "401"
    ELSE token.sub

(* ------------------------------------------------------------ the store *)

\* A row of refresh_tokens, without its surrogate key id and created_at: rows
\* are told apart by token_jti.  NoRec stands for None.
NoRec == [user_id |-> "none", token_jti |-> 0, expires_at |-> 0]

\* A lookup that ignores the jti.
get_by_jti_any(table, token_jti) ==
    IF table = {} THEN NoRec ELSE CHOOSE r \in table : TRUE

\* TokenRepository.get_by_jti on a table: scalar_one_or_none.
get_by_jti(table, token_jti) ==
    IF \E r \in table : r.token_jti = token_jti
    THEN CHOOSE r \in table : r.token_jti = token_jti
    ELSE NoRec

\* A DELETE that removes nothing.
revoke_by_jti_keeps(table, token_jti) == table

\* A DELETE that takes every row of the user who owns the jti.
revoke_by_jti_of_user(table, token_jti) ==
    { r \in table : \A q \in table : q.token_jti = token_jti
                                         => q.user_id # r.user_id }

\* The DELETE of TokenRepository.revoke_by_jti: the table after it.
revoke_by_jti(table, token_jti) == { r \in table : r.token_jti # token_jti }

\* A rowcount that is 1 whatever was deleted.
revoke_by_jti_rowcount_one(table, token_jti) == 1

\* result.rowcount of that DELETE.
revoke_by_jti_rowcount(table, token_jti) ==
    Cardinality({ r \in table : r.token_jti = token_jti })

\* A DELETE by user that removes nothing.
revoke_by_user_id_keeps(table, user_id) == table

\* A DELETE without its WHERE clause.
revoke_by_user_id_everyone(table, user_id) == {}

\* The DELETE of TokenRepository.revoke_by_user_id: the table after it.
revoke_by_user_id(table, user_id) == { r \in table : r.user_id # user_id }

\* result.rowcount of that DELETE.
revoke_by_user_id_rowcount(table, user_id) ==
    Cardinality({ r \in table : r.user_id = user_id })

\* A column without the unique index.
unique_jti_off(table, token_jti) == TRUE

\* unique=True on refresh_tokens.token_jti: the INSERT is accepted iff no
\* row holds the jti.
unique_jti_ok(table, token_jti) == ~\E r \in table : r.token_jti = token_jti

(* ------------------------------------------------- requests and start-up *)

\* A slot with no request: the locals of AuthService.refresh_tokens and of the
\* login route, at their defaults.
Idle ==
    [op |-> "none", pc |-> "done", tok |-> NoTok, user_id |-> "none",
     db_token |-> NoRec, rowcount |-> 0, access |-> NoTok, refresh |-> NoTok,
     db_obj |-> NoRec]

\* No response.
NoResp == [op |-> "none", status |-> 0, detail |-> <<>>, tokens_revoked |-> 0]

\* An HTTP response: the route, the status code and the detail or message.
Respond(op, status, detail) ==
    [op |-> op, status |-> status, detail |-> detail, tokens_revoked |-> 0]

\* The slot a new request takes (slots are interchangeable: the lowest free one).
Free(p) == /\ calls[p] = Idle
           /\ \A q \in DOMAIN calls : q < p => calls[q] # Idle

\* What a client can put into a cookie: a token it was given, or a forgery.
Presentable == issued \cup Forged \cup {NoTok}

\* secrets.token_urlsafe(32) when it returns a value never returned before.
FreshJti == IF JTIs \ used = {} THEN {}
            ELSE { CHOOSE j \in JTIs \ used : \A k \in JTIs \ used : j <= k }

\* secrets.token_urlsafe(32) with nothing assumed about its value: any of
\* the MaxCollide values of the specification of colliding jti values.
AnyJti == 1..MaxCollide

\* A deployment whose two keys differ, and one whose operator set both
\* SECRET_KEY and REFRESH_SECRET_KEY to the same value.
TwoKeys == [SECRET_KEY |-> "key A", REFRESH_SECRET_KEY |-> "key R"]
OneKey == [SECRET_KEY |-> "key A", REFRESH_SECRET_KEY |-> "key A"]

\* The keys of the legacy variant, constants of src/auth.py.
LegacyKeys == [SECRET_KEY |-> "your-secret-key-change-in-production",
               REFRESH_SECRET_KEY |-> "your-refresh-secret-key-change-in-production"]

\* The state after start-up with the settings loaded, and with the history
\* variables recorded or not.
Start(recorded, env) ==
    /\ history = recorded
    /\ settings = env
    /\ now = 0
    /\ store = {}
    /\ issued = {}
    /\ calls = [p \in Calls |-> Idle]
    /\ resp = NoResp
    /\ used = {}
    /\ rotated = {}
    /\ killed = {}

Init == Start(TRUE, TwoKeys)

\* The claims about colliding jti values do not read the history variables.
InitCollide == Start(FALSE, TwoKeys)

\* Start-up of src/main.py.
InitLegacy == Start(FALSE, LegacyKeys)

\* Start-up of either variant.
InitVariants == Start(FALSE, TwoKeys) \/ Start(FALSE, LegacyKeys)

(* --------------------------------------------------------------- actions *)

\* The clock advances.
Tick ==
    /\ now < MaxTime
    /\ now' = now + 1
    /\ resp' = NoResp
    /\ UNCHANGED <<history, settings, store, issued, calls, used, rotated, killed>>

\* create_access_token + _create_and_save_refresh_token up to the commit of
\* BaseRepository.create, for the locals c of the request in slot p and the jti
\* the random source returned.  An INSERT the unique index refuses raises
\* IntegrityError, which reaches the client as a 500.
create_tokens(p, c, user_id, token_jti) ==
    LET access_token == create_access_token(user_id, now)
        expires_at == now + RefreshTTL
        refresh_token == encode_refresh_token(user_id, token_jti, expires_at)
        db_obj == [user_id |-> user_id, token_jti |-> token_jti,
                   expires_at |-> expires_at]
    IN  /\ used' = used \cup {token_jti}
        /\ IF unique_jti_ok(store, token_jti)
           THEN /\ store' = store \cup {db_obj}
                /\ calls' = [calls EXCEPT ![p] =
                       [c EXCEPT !.pc = "inserted", !.user_id = user_id,
                                 !.access = access_token,
                                 !.refresh = refresh_token,
                                 !.db_obj = db_obj]]
                /\ resp' = NoResp
           ELSE /\ store' = store
                /\ calls' = [calls EXCEPT ![p] = Idle]
                /\ resp' = Respond(c.op, 500, <<"Internal server error">>)

\* POST /auth/login up to the commit of the new row.
Login(p, username, password, token_jti) ==
    /\ Free(p)
    /\ LET user == authenticate_user(username, password)
       IN  IF user = NoUser
           THEN /\ resp' = Respond("login", 401,
                                   <<"Incorrect username or password">>)
                /\ UNCHANGED <<store, calls, used>>
           ELSE create_tokens(p, [Idle EXCEPT !.op = "login"], user.id, token_jti)
    /\ UNCHANGED <<history, settings, now, issued, rotated, killed>>

\* A return that hands out the tokens without reloading the row.
Reload_unchecked(p) ==
    /\ calls[p].pc = "inserted"
    /\ resp' = Respond(calls[p].op, 200, <<"ok">>)
    /\ issued' = issued \cup {calls[p].access, calls[p].refresh}
    /\ calls' = [calls EXCEPT ![p] = Idle]
    /\ UNCHANGED <<history, settings, now, store, used, killed, rotated>>

\* db_session.refresh(db_obj) of BaseRepository.create, then the return of the
\* handler: the tokens go to the client.  A row that is gone by now makes
\* refresh raise InvalidRequestError (a 500).  (The row is looked up by its
\* fields; where a jti can repeat, a later row with the same fields passes
\* for it.)
Reload(p) ==
    /\ calls[p].pc = "inserted"
    /\ LET c == calls[p]
       IN  IF c.db_obj \in store
           THEN /\ resp' = Respond(c.op, 200, <<"ok">>)
                /\ issued' = issued \cup {c.access, c.refresh}
                /\ rotated' = IF history /\ c.op = "refresh"
                              THEN rotated \cup {c.tok}
                              ELSE rotated
           ELSE /\ resp' = Respond(c.op, 500, <<"Internal server error">>)
                /\ UNCHANGED <<issued, rotated>>
    /\ calls' = [calls EXCEPT ![p] = Idle]
    /\ UNCHANGED <<history, settings, now, store, used, killed>>

\* AuthService.refresh_tokens from the cookie to the result of get_by_jti
\* (lines 101-117, and the cookie check of the route): the detail of the 401
\* it raises on the table and clock given, or <<>> when the row was found.
refresh_reject(token, table, t) ==
    IF token = NoTok THEN <<"No refresh token found">>
    ELSE IF decode_refresh_token(token, t) # "ok"
         THEN <<"Invalid token: ", decode_refresh_token(token, t)>>
    ELSE IF token.typ # "refresh" THEN <<"Not a refresh token">>
    ELSE IF token.sub = "none" \/ token.jti = 0 THEN <<"Invalid token payload">>
    ELSE IF get_by_jti(table, token.jti) = NoRec THEN <<"Token revoked">>
    ELSE <<>>

\* A refresh that, when it rejects, also clears the rows of the token's user.
RefreshLookup_purges(p, token) ==
    /\ Free(p)
    /\ token \in Presentable
    /\ LET reject == refresh_reject(token, store, now)
       IN  IF reject # <<>>
           THEN /\ resp' = Respond("refresh", 401, reject)
                /\ calls' = calls
                /\ store' = revoke_by_user_id(store, token.sub)
           ELSE /\ calls' = [calls EXCEPT ![p] =
                       [Idle EXCEPT !.op = "refresh", !.tok = token,
                                    !.pc = "found", !.user_id = token.sub,
                                    !.db_token = get_by_jti(store, token.jti)]]
                /\ resp' = NoResp
                /\ store' = store
    /\ UNCHANGED <<history, settings, now, issued, used, rotated, killed>>

\* A refresh that issues for the first user whatever the token says.
RefreshLookup_first_user(p, token) ==
    /\ Free(p)
    /\ token \in Presentable
    /\ LET reject == refresh_reject(token, store, now)
       IN  IF reject # <<>>
           THEN /\ resp' = Respond("refresh", 401, reject)
                /\ calls' = calls
           ELSE /\ calls' = [calls EXCEPT ![p] =
                       [Idle EXCEPT !.op = "refresh", !.tok = token,
                                    !.pc = "found", !.user_id = "id1",
                                    !.db_token = get_by_jti(store, token.jti)]]
                /\ resp' = NoResp
    /\ UNCHANGED <<history, settings, now, store, issued, used, rotated, killed>>

\* POST /auth/refresh up to the result of get_by_jti.
RefreshLookup(p, token) ==
    /\ Free(p)
    /\ token \in Presentable
    /\ LET reject == refresh_reject(token, store, now)
       IN  IF reject # <<>>
           THEN /\ resp' = Respond("refresh", 401, reject)
                /\ calls' = calls
           ELSE /\ calls' = [calls EXCEPT ![p] =
                       [Idle EXCEPT !.op = "refresh", !.tok = token,
                                    !.pc = "found", !.user_id = token.sub,
                                    !.db_token = get_by_jti(store, token.jti)]]
                /\ resp' = NoResp
    /\ UNCHANGED <<history, settings, now, store, issued, used, rotated, killed>>

\* An expiry check on the row that never fires.
store_expired_never(db_token, t) == FALSE

\* "if datetime.utcnow() > db_token.expires_at" (line 120).
store_expired(db_token, t) == t > db_token.expires_at

\* The expiry check on the row and the revoke_by_jti that follows it on either
\* branch (lines 119-125): DELETE and commit.
RefreshRevoke(p) ==
    /\ calls[p].pc = "found"
    /\ LET c == calls[p]
       IN  /\ store' = revoke_by_jti(store, c.tok.jti)
           /\ IF store_expired(c.db_token, now)
              THEN /\ resp' = Respond("refresh", 401, <<"Token expired">>)
                   /\ calls' = [calls EXCEPT ![p] = Idle]
              ELSE /\ calls' = [calls EXCEPT ![p] =
                          [c EXCEPT !.pc = "revoked",
                                    !.rowcount =
                                       revoke_by_jti_rowcount(store, c.tok.jti)]]
                   /\ resp' = NoResp
    /\ UNCHANGED <<history, settings, now, issued, used, rotated, killed>>

\* Lines 127-129: the new pair, up to the commit of the new row.
RefreshIssue(p, token_jti) ==
    /\ calls[p].pc = "revoked"
    /\ create_tokens(p, calls[p], calls[p].user_id, token_jti)
    /\ UNCHANGED <<history, settings, now, issued, rotated, killed>>

\* The jti of the cookie, taken without verifying it.
logout_jti_unverified(token, t) == token.jti

\* The jti the logout route hands to AuthService.logout (0: it revokes
\* nothing): the cookie is there, decodes as a refresh-key JWT and has a jti.
logout_jti(token, t) ==
    IF token = NoTok THEN 0
    ELSE IF decode_refresh_token(token, t) # "ok" THEN 0
    ELSE token.jti

\* POST /auth/logout: decode the cookie, revoke its jti, always answer 200.
Logout(token) ==
    /\ token \in Presentable
    /\ LET token_jti == logout_jti(token, now)
       IN  store' = IF token_jti # 0 THEN revoke_by_jti(store, token_jti)
                    ELSE store
    /\ resp' = Respond("logout", 200, <<"Successfully logged out">>)
    /\ UNCHANGED <<history, settings, now, issued, calls, used, rotated, killed>>

\* POST /auth/logout-all: get_current_user on the access cookie, then
\* AuthService.logout_all for that user.
LogoutAll(token) ==
    /\ token \in Presentable
    /\ LET user_id == get_current_user(token, now)
       IN  IF user_id = "401"
           THEN /\ resp' = Respond("logout_all", 401,
                                   <<"Could not validate credentials">>)
                /\ UNCHANGED <<store, killed>>
           ELSE /\ store' = revoke_by_user_id(store, user_id)
                /\ resp' = [Respond("logout_all", 200,
                              <<"Successfully logged out from all devices">>)
                            EXCEPT !.tokens_revoked =
                                      revoke_by_user_id_rowcount(store, user_id)]
                /\ killed' = IF history
                              THEN killed \cup { t \in issued : t.typ = "refresh"
                                                               /\ t.sub = user_id }
                              ELSE killed
    /\ UNCHANGED <<history, settings, now, issued, calls, used, rotated>>

\* A logout that answers 200 although its DELETE raised.
LogoutDbError_swallowed(token, committed) ==
    /\ token \in Presentable
    /\ logout_jti(token, now) # 0
    /\ store' = IF committed THEN revoke_by_jti(store, logout_jti(token, now))
                ELSE store
    /\ resp' = Respond("logout", 200, <<"Successfully logged out">>)
    /\ UNCHANGED <<history, settings, now, issued, calls, used, rotated, killed>>

\* POST /auth/logout when the database fails under revoke_by_jti: execute or
\* commit raises an SQLAlchemyError, which "except JWTError" does not catch,
\* so the request ends with a 500.  The statement did not take effect, or
\* (committed) it did and only the acknowledgement of the commit was lost.
LogoutDbError(token, committed) ==
    /\ token \in Presentable
    /\ logout_jti(token, now) # 0
    /\ store' = IF committed THEN revoke_by_jti(store, logout_jti(token, now))
                ELSE store
    /\ resp' = Respond("logout", 500, <<"Internal Server Error">>)
    /\ UNCHANGED <<history, settings, now, issued, calls, used, rotated, killed>>

\* The request dies between two awaits (worker killed, client gone): the
\* session closes, what was committed stays, nothing is answered.
Crash(p) ==
    /\ calls[p].pc \in {"found", "revoked", "inserted"}
    /\ resp' = Respond(calls[p].op, 0, <<"no response">>)
    /\ calls' = [calls EXCEPT ![p] = Idle]
    /\ UNCHANGED <<history, settings, now, store, issued, used, rotated, killed>>

(* ---------------------------------------- actions of the legacy variant *)

\* The legacy handlers share one AsyncSession per request (autocommit off,
\* autoflush off).  store is the committed table; what a request has executed
\* or added and not committed lives in its slot: at pc "deleting" the DELETE
\* of calls[p].tok.jti is pending.  get_current_user, create_access_token and
\* the key check of jwt.decode in src/auth.py are those of the app variant.

\* create_refresh_token({"sub": user_id}) at clock t, with the jti drawn.
create_refresh_token(user_id, token_jti, t) ==
    encode_refresh_token(user_id, token_jti, t + RefreshTTL)

\* The row save_refresh_token adds to the session at clock t.
save_refresh_token(user_id, token_jti, t) ==
    [user_id |-> user_id, token_jti |-> token_jti, expires_at |-> t + RefreshTTL]

\* The DELETE of revoke_token: the table after it, and its rowcount.
revoke_token(table, token_jti) == { r \in table : r.token_jti # token_jti }

revoke_token_rowcount(table, token_jti) ==
    Cardinality({ r \in table : r.token_jti = token_jti })

\* revoke_user_tokens: count first, return 0 if there is nothing, else DELETE.
revoke_user_tokens(table, user_id) == { r \in table : r.user_id # user_id }

revoke_user_tokens_count(table, user_id) ==
    Cardinality({ r \in table : r.user_id = user_id })

\* verify_refresh_token: the detail of the 401 it raises, or <<>> when it
\* returns the user.  It never reads refresh_tokens.
verify_refresh_token(token, t) ==
    IF token = NoTok THEN <<"Refresh token not found">>
    ELSE IF decode_refresh_token(token, t) # "ok"
         THEN <<"Invalid refresh token: ", decode_refresh_token(token, t)>>
    ELSE IF token.typ # "refresh" THEN <<"Not a refresh token">>
    ELSE IF token.sub = "none" THEN <<"No user ID in token">>
    ELSE IF get_user_by_id(token.sub) = NoUser THEN <<"User not found">>
    ELSE <<>>

\* The table as the transaction of the request with locals c sees it.
session_view(table, c) ==
    IF c.pc = "deleting" /\ c.tok.jti # 0 THEN revoke_token(table, c.tok.jti)
    ELSE table

\* A rollback that also takes back the row the request has committed.
rollback_committed(table, c) == table \ {c.db_obj}

\* db.rollback(), and the rollback of a session that is closed: what the
\* request has not committed is dropped, the committed table stays.
rollback(table, c) == table

\* POST /api/v1/auth/login of src/main.py up to the commit of
\* create_and_save_refresh_token.
LegacyLogin(p, username, password, token_jti) ==
    /\ Free(p)
    /\ LET user == authenticate_user(username, password)
           expires_at == now + RefreshTTL
           db_refresh_token == [user_id |-> user.id, token_jti |-> token_jti,
                                expires_at |-> expires_at]
       IN  IF user = NoUser
           THEN /\ resp' = Respond("login", 401,
                                   <<"Incorrect username or password">>)
                /\ UNCHANGED <<store, calls, used>>
           ELSE /\ used' = used \cup {token_jti}
                /\ IF unique_jti_ok(store, token_jti)
                   THEN /\ store' = store \cup {db_refresh_token}
                        /\ calls' = [calls EXCEPT ![p] =
                              [Idle EXCEPT !.op = "login", !.pc = "committed",
                                 !.user_id = user.id,
                                 !.access = create_access_token(user.id, now),
                                 !.refresh = encode_refresh_token(user.id,
                                                token_jti, expires_at),
                                 !.db_obj = db_refresh_token]]
                        /\ resp' = NoResp
                   ELSE /\ store' = store
                        /\ calls' = calls
                        /\ resp' = Respond("login", 500,
                                           <<"Internal Server Error">>)
    /\ UNCHANGED <<history, settings, now, issued, rotated, killed>>

\* The refresh handler of src/main.py through verify_refresh_token
\* (lines 166-170): decode, type, sub, the SELECT of the user.
LegacyVerify(p, token) ==
    /\ Free(p)
    /\ token \in Presentable
    /\ LET reject == verify_refresh_token(token, now)
       IN  IF reject # <<>>
           THEN /\ resp' = Respond("refresh", 401, reject)
                /\ calls' = calls
           ELSE /\ calls' = [calls EXCEPT ![p] =
                       [Idle EXCEPT !.op = "refresh", !.tok = token,
                                    !.pc = "verified", !.user_id = token.sub]]
                /\ resp' = NoResp
    /\ UNCHANGED <<history, settings, now, store, issued, used, rotated, killed>>

\* A revoke_token that commits its DELETE at once.
LegacyRevoke_autocommit(p) ==
    /\ calls[p].op = "refresh" /\ calls[p].pc = "verified"
    /\ store' = revoke_token(store, calls[p].tok.jti)
    /\ calls' = [calls EXCEPT ![p] = [calls[p] EXCEPT !.pc = "deleting"]]
    /\ resp' = NoResp
    /\ UNCHANGED <<history, settings, now, issued, used, rotated, killed>>

\* Lines 173-177: the cookie is decoded again and revoke_token executes the
\* DELETE of its jti inside the transaction; nothing is committed.
LegacyRevoke(p) ==
    /\ calls[p].op = "refresh" /\ calls[p].pc = "verified"
    /\ LET c == calls[p]
       IN  IF decode_refresh_token(c.tok, now) # "ok"
           THEN /\ resp' = Respond("refresh", 401,
                      <<"Token error: ", decode_refresh_token(c.tok, now)>>)
                /\ calls' = [calls EXCEPT ![p] = Idle]
           ELSE /\ calls' = [calls EXCEPT ![p] =
                       [c EXCEPT !.pc = "deleting",
                                 !.rowcount = IF c.tok.jti # 0
                                     THEN revoke_token_rowcount(store, c.tok.jti)
                                     ELSE 0]]
                /\ resp' = NoResp
    /\ store' = store
    /\ UNCHANGED <<history, settings, now, issued, used, rotated, killed>>

\* Lines 180-190: the new pair, save_refresh_token and db.commit(): the
\* flush sends the INSERT, which the unique index checks against the table as
\* the transaction sees it, and the commit makes DELETE and INSERT visible
\* together.  An IntegrityError lands in "except Exception": rollback, 500.
LegacyCommit(p, token_jti) ==
    /\ calls[p].op = "refresh" /\ calls[p].pc = "deleting"
    /\ LET c == calls[p]
           view == session_view(store, c)
           db_refresh_token == save_refresh_token(c.user_id, token_jti, now)
       IN  /\ used' = used \cup {token_jti}
           /\ IF unique_jti_ok(view, token_jti)
              THEN /\ store' = view \cup {db_refresh_token}
                   /\ calls' = [calls EXCEPT ![p] =
                          [c EXCEPT !.pc = "committed",
                             !.access = create_access_token(c.user_id, now),
                             !.refresh = create_refresh_token(c.user_id,
                                            token_jti, now),
                             !.db_obj = db_refresh_token]]
                   /\ resp' = NoResp
              ELSE /\ store' = rollback(store, c)
                   /\ calls' = [calls EXCEPT ![p] = Idle]
                   /\ resp' = Respond("refresh", 500,
                                      <<"Internal server error">>)
    /\ UNCHANGED <<history, settings, now, issued, rotated, killed>>

\* set_auth_cookies and the return of the login and of the refresh handler.
LegacyReturn(p) ==
    /\ calls[p].pc = "committed"
    /\ resp' = Respond(calls[p].op, 200, <<"ok">>)
    /\ issued' = issued \cup {calls[p].access, calls[p].refresh}
    /\ calls' = [calls EXCEPT ![p] = Idle]
    /\ UNCHANGED <<history, settings, now, store, used, rotated, killed>>

\* The kinds of failure that end a handler between two awaits: a
\* CancelledError (client gone, worker stopped), which no "except Exception"
\* catches, and an Exception, which the handler answers with rollback and 500.
Raised == { "CancelledError", "Exception" }

\* A legacy login or refresh ends early: db.rollback() in the except branch,
\* or the rollback of the session as it closes.
LegacyAbort(p, raised) ==
    /\ calls[p].pc \in {"verified", "deleting", "committed"}
    /\ store' = rollback(store, calls[p])
    /\ resp' = IF raised = "Exception"
               THEN Respond(calls[p].op, 500, <<"Internal server error">>)
               ELSE Respond(calls[p].op, 0, <<"no response">>)
    /\ calls' = [calls EXCEPT ![p] = Idle]
    /\ UNCHANGED <<history, settings, now, issued, used, rotated, killed>>

\* POST /api/v1/auth/logout of src/main.py: decode, revoke_token, commit.
LegacyLogout(token) ==
    /\ token \in Presentable
    /\ LET token_jti == logout_jti(token, now)
       IN  store' = IF token_jti # 0 THEN revoke_token(store, token_jti)
                    ELSE store
    /\ resp' = Respond("logout", 200, <<"Successfully logged out">>)
    /\ UNCHANGED <<history, settings, now, issued, calls, used, rotated, killed>>

\* POST /api/v1/auth/logout-all of src/main.py: get_current_user,
\* revoke_user_tokens, commit.
LegacyLogoutAll(token) ==
    /\ token \in Presentable
    /\ LET user_id == get_current_user(token, now)
       IN  IF user_id = "401"
           THEN /\ resp' = Respond("logout_all", 401,
                                   <<"Could not validate credentials">>)
                /\ store' = store
           ELSE /\ store' = revoke_user_tokens(store, user_id)
                /\ resp' = [Respond("logout_all", 200,
                              <<"Successfully logged out from all devices">>)
                            EXCEPT !.tokens_revoked =
                                      revoke_user_tokens_count(store, user_id)]
    /\ UNCHANGED <<history, settings, now, issued, calls, used, rotated, killed>>

(* -------------------------------------------------------- specifications *)

\* Login and refresh take a slot while they are in flight.  The other
\* requests are one database round trip: they take no slot and race the
\* requests in flight.

\* The slot of the specifications that keep one login/refresh in flight.
Sequential == {1}

\* The usernames that are tried at login: a registered one and an unknown one.
OneUser == {"u1", "nobody"}

Next ==
    \/ Tick
    \/ \E p \in Sequential, username \in OneUser, password \in Passwords,
          j \in FreshJti : Login(p, username, password, j)
    \/ \E p \in Sequential : Reload(p)
    \/ \E p \in Sequential, token \in Presentable : RefreshLookup(p, token)
    \/ \E p \in Sequential : RefreshRevoke(p)
    \/ \E p \in Sequential, j \in FreshJti : RefreshIssue(p, j)
    \/ \E token \in Presentable : Logout(token)
    \/ \E token \in Presentable : LogoutAll(token)
    \/ \E p \in Sequential : Crash(p)

Spec == Init /\ [][Next]_vars

NextReplay ==
    \/ \E p \in Calls, username \in OneUser, password \in Passwords,
          j \in FreshJti : Login(p, username, password, j)
    \/ \E p \in Calls : Reload(p)
    \/ \E p \in Calls, token \in Presentable : RefreshLookup(p, token)
    \/ \E p \in Calls : RefreshRevoke(p)
    \/ \E p \in Calls, j \in FreshJti : RefreshIssue(p, j)
    \/ \E token \in Presentable : Logout(token)
    \/ \E token \in Presentable : LogoutAll(token)
    \/ \E p \in Calls : Crash(p)

SpecReplay == Init /\ [][NextReplay]_vars

\* The usernames of the two registered users.
TwoUsers == {"u1", "u2"}

NextCollide ==
    \/ \E p \in Sequential, username \in TwoUsers, password \in Passwords,
          j \in AnyJti : Login(p, username, password, j)
    \/ \E p \in Sequential : Reload(p)
    \/ \E p \in Sequential, token \in Presentable : RefreshLookup(p, token)
    \/ \E p \in Sequential : RefreshRevoke(p)
    \/ \E p \in Sequential, j \in AnyJti : RefreshIssue(p, j)
    \/ \E token \in Presentable : Logout(token)
    \/ \E token \in Presentable : LogoutAll(token)
    \/ \E p \in Sequential : Crash(p)

SpecCollide == InitCollide /\ [][NextCollide]_vars

NextUsers ==
    \/ \E p \in Sequential, username \in TwoUsers, password \in Passwords,
          j \in FreshJti : Login(p, username, password, j)
    \/ \E p \in Sequential : Reload(p)
    \/ \E p \in Sequential, token \in Presentable : RefreshLookup(p, token)
    \/ \E p \in Sequential : RefreshRevoke(p)
    \/ \E p \in Sequential, j \in FreshJti : RefreshIssue(p, j)
    \/ \E token \in Presentable : Logout(token)
    \/ \E token \in Presentable : LogoutAll(token)
    \/ \E p \in Sequential : Crash(p)

SpecUsers == Init /\ [][NextUsers]_vars

NextOutage ==
    \/ \E p \in Sequential, username \in OneUser, password \in Passwords,
          j \in FreshJti : Login(p, username, password, j)
    \/ \E p \in Sequential : Reload(p)
    \/ \E p \in Sequential, token \in Presentable : RefreshLookup(p, token)
    \/ \E p \in Sequential : RefreshRevoke(p)
    \/ \E p \in Sequential, j \in FreshJti : RefreshIssue(p, j)
    \/ \E token \in Presentable : Logout(token)
    \/ \E token \in Presentable, committed \in BOOLEAN :
          LogoutDbError(token, committed)
    \/ \E token \in Presentable : LogoutAll(token)
    \/ \E p \in Sequential : Crash(p)

SpecOutage == Init /\ [][NextOutage]_vars

NextLegacy ==
    \/ \E p \in Sequential, username \in OneUser, password \in Passwords,
          j \in AnyJti : LegacyLogin(p, username, password, j)
    \/ \E p \in Sequential, token \in Presentable : LegacyVerify(p, token)
    \/ \E p \in Sequential : LegacyRevoke(p)
    \/ \E p \in Sequential, j \in AnyJti : LegacyCommit(p, j)
    \/ \E p \in Sequential : LegacyReturn(p)
    \/ \E p \in Sequential, raised \in Raised : LegacyAbort(p, raised)
    \/ \E token \in Presentable : LegacyLogout(token)
    \/ \E token \in Presentable : LegacyLogoutAll(token)

SpecLegacy == InitLegacy /\ [][NextLegacy]_vars

\* Which variant is deployed: src/app reads its keys from the environment,
\* src/main.py has those of src/auth.py.
AppDeployed == settings = TwoKeys
LegacyDeployed == settings = LegacyKeys

NextVariants ==
    \/ \E p \in Sequential, username \in OneUser, password \in Passwords,
          j \in FreshJti : AppDeployed /\ Login(p, username, password, j)
    \/ \E p \in Sequential : AppDeployed /\ Reload(p)
    \/ \E p \in Sequential, token \in Presentable :
          AppDeployed /\ RefreshLookup(p, token)
    \/ \E p \in Sequential : AppDeployed /\ RefreshRevoke(p)
    \/ \E p \in Sequential, j \in FreshJti : AppDeployed /\ RefreshIssue(p, j)
    \/ \E token \in Presentable : AppDeployed /\ Logout(token)
    \/ \E token \in Presentable, committed \in BOOLEAN :
          AppDeployed /\ LogoutDbError(token, committed)
    \/ \E token \in Presentable : AppDeployed /\ LogoutAll(token)
    \/ \E p \in Sequential : AppDeployed /\ Crash(p)
    \/ \E p \in Sequential, username \in OneUser, password \in Passwords,
          j \in AnyJti : LegacyDeployed /\ LegacyLogin(p, username, password, j)
    \/ \E p \in Sequential, token \in Presentable :
          LegacyDeployed /\ LegacyVerify(p, token)
    \/ \E p \in Sequential : LegacyDeployed /\ LegacyRevoke(p)
    \/ \E p \in Sequential, j \in AnyJti : LegacyDeployed /\ LegacyCommit(p, j)
    \/ \E p \in Sequential : LegacyDeployed /\ LegacyReturn(p)
    \/ \E p \in Sequential, raised \in Raised :
          LegacyDeployed /\ LegacyAbort(p, raised)
    \/ \E token \in Presentable : LegacyDeployed /\ LegacyLogout(token)
    \/ \E token \in Presentable : LegacyDeployed /\ LegacyLogoutAll(token)

SpecVariants == InitVariants /\ [][NextVariants]_vars

\* Either deployment: the two keys differ, or they are the same.
InitKeys == Start(TRUE, TwoKeys) \/ Start(TRUE, OneKey)

NextKeys ==
    \/ \E p \in Sequential, username \in OneUser, password \in Passwords,
          j \in FreshJti : Login(p, username, password, j)
    \/ \E p \in Sequential : Reload(p)
    \/ \E p \in Sequential, token \in Presentable : RefreshLookup(p, token)
    \/ \E p \in Sequential : RefreshRevoke(p)
    \/ \E p \in Sequential, j \in FreshJti : RefreshIssue(p, j)
    \/ \E token \in Presentable : Logout(token)
    \/ \E token \in Presentable : LogoutAll(token)
    \/ \E p \in Sequential : Crash(p)

SpecKeys == InitKeys /\ [][NextKeys]_vars

(* ---------------------------------------------------------------- claims *)

\* What POST /auth/refresh answers to the token in this state, were it called
\* now: the reject detail of the lookup, <<>> if the call gets past it.
Answer(token) == refresh_reject(token, store, now)

\* The refresh token still passes jwt.decode at the clock.
Decodes(token) == decode_refresh_token(token, now) = "ok"

\* C1 (as written): once refresh(T) has returned a new pair, every later
\* refresh(T) is rejected with "Token revoked".
C1_ReplayAlwaysTokenRevoked ==
    \A token \in rotated : Answer(token) = <<"Token revoked">>

\* C1 (amended): once refresh(T) has returned a new pair, every later
\* refresh(T) is rejected and returns no tokens: with "Token revoked" as long
\* as T still decodes, and with the decoder's "Signature has expired." once
\* the clock is past T's exp.
C1_ReplayRejected ==
    \A token \in rotated :
        Answer(token) = IF Decodes(token) THEN <<"Token revoked">>
                        ELSE <<"Invalid token: ", "Signature has expired.">>

\* A rotated token has just been presented again and answered "Token revoked":
\* the tokens that draw this answer here are all rotated ones.
C1_Witness ==
    /\ resp.op = "refresh" /\ resp.status = 401
    /\ resp.detail = <<"Token revoked">>
    /\ \E token \in rotated : Decodes(token)
    /\ \A token \in Presentable :
          Answer(token) = <<"Token revoked">> => token \in rotated

\* The refresh request in slot p returns a new pair in this step.
RefreshReturns(p) ==
    Reload(p) /\ calls[p].op = "refresh" /\ resp'.status = 200

\* The login request in slot p returns its pair in this step.
LoginReturns(p) ==
    Reload(p) /\ calls[p].op = "login" /\ resp'.status = 200

\* The rows of a table that hold the jti.
RowsOf(table, token_jti) == { r \in table : r.token_jti = token_jti }

\* The refresh tokens clients hold.
IssuedRefresh == { token \in issued : token.typ = "refresh" }

\* C2 (as written): of the interleaved refresh calls that present one token,
\* exactly one returns a new pair: no call returns a new pair for a token
\* whose rotation has already returned one.
C2_ExactlyOneSucceeds ==
    [][\A p \in Calls : RefreshReturns(p) => calls[p].tok \notin rotated]_vars

\* C3 (as written): a refresh call that dies, with nothing else having touched
\* its rows, leaves exactly one of its two records (the old one, the new one)
\* in the committed table.
C3_CrashLeavesOneRecord ==
    [][\A p \in Sequential :
          LET c == calls[p]
          IN  ( /\ Crash(p)
                /\ c.op = "refresh"
                /\ (c.db_token \in store \/ c.rowcount = 1)
                /\ (c.pc = "inserted" => c.db_obj \in store) )
              => Cardinality({c.db_token, c.db_obj} \cap store') = 1]_vars

\* C4: a refresh token that was issued for a user before a logout-all of that
\* user returned, and that has not expired, is answered "Token revoked".
C4_RevokedAfterLogoutAll ==
    \A token \in killed : Decodes(token) => Answer(token) = <<"Token revoked">>

\* A token that logout-all (and no rotation) has made useless has just been
\* presented and answered "Token revoked".
C4_Witness ==
    /\ resp.op = "refresh" /\ resp.status = 401
    /\ resp.detail = <<"Token revoked">>
    /\ \E token \in killed \ rotated : Decodes(token)
    /\ \A token \in Presentable :
          Answer(token) = <<"Token revoked">> => token \in killed \ rotated

\* C5: a login with the credentials of a registered user is not rejected, and
\* when it returns, the jti of the refresh token it returns is in exactly one
\* row, owned by that user, and get_current_user resolves the access token it
\* returns to that user (from the moment the token is made until its exp).
C5_LoginPostCondition ==
    /\ [][\A p \in Sequential, username \in OneUser, password \in Passwords,
             j \in JTIs :
             ( /\ Login(p, username, password, j)
               /\ authenticate_user(username, password) # NoUser )
             => /\ calls'[p].pc = "inserted"
                /\ calls'[p].user_id = get_by_username(username).id
                /\ get_current_user(calls'[p].access, now') = calls'[p].user_id
                /\ calls'[p].refresh.sub = calls'[p].user_id]_vars
    /\ [][\A p \in Sequential :
             LoginReturns(p)
             => LET c == calls[p]
                IN  /\ {c.access, c.refresh} \subseteq issued'
                    /\ Cardinality(RowsOf(store', c.refresh.jti)) = 1
                    /\ \A r \in RowsOf(store', c.refresh.jti) :
                          r.user_id = c.user_id
                    /\ decode_access_token(c.access, now') = "ok"
                          => get_current_user(c.access, now') = c.user_id]_vars

\* A login has just returned a pair: its refresh token has its row and its
\* access token resolves to the user.
C5_Witness ==
    /\ resp.op = "login" /\ resp.status = 200
    /\ \E a \in issued, token \in IssuedRefresh :
          /\ get_current_user(a, now) = token.sub
          /\ Cardinality(RowsOf(store, token.jti)) = 1

\* The decoder's answer to a token past its exp.
SignatureExpired == <<"Invalid token: ", "Signature has expired.">>

\* The TTL of the refresh token has elapsed: the clock is strictly past the
\* instant fixed when it was issued.
Elapsed(token) == now > token.expires_at

C7_LogoutFailsOpen ==
    [][\A token \in Presentable \ {NoTok} :
          (Logout(token) /\ ~Decodes(token))
          => /\ resp' = Respond("logout", 200, <<"Successfully logged out">>)
             /\ store' = store]_vars

\* A logout has just answered in a state where no cookie a client can send
\* decodes, among them an expired refresh token whose row is in the table.
C7_Witness ==
    /\ resp.op = "logout" /\ resp.status = 200
    /\ \A token \in Presentable : ~Decodes(token)
    /\ \E token \in IssuedRefresh : RowsOf(store, token.jti) # {}

\* C8: along a chain login, refresh, refresh, logout-all: a token whose
\* rotation returned is answered "Token revoked" while it decodes; the token a
\* rotation returns passes the lookup of the next refresh at that moment
\* (unless it has expired), and a refresh that passed the lookup and finds its
\* new row returns a pair; a token issued before a logout-all of its user is
\* answered "Token revoked" while it decodes.
C8_RotationChain ==
    /\ [](\A token \in rotated \cup killed :
             Decodes(token) => Answer(token) = <<"Token revoked">>)
    /\ [][\A p \in Sequential :
             RefreshReturns(p)
             => /\ calls[p].refresh \in issued'
                /\ decode_refresh_token(calls[p].refresh, now') = "ok"
                      => refresh_reject(calls[p].refresh, store', now') = <<>>]_vars
    /\ [][\A p \in Sequential :
             (Reload(p) /\ calls[p].op = "refresh" /\ calls[p].db_obj \in store)
             => RefreshReturns(p)]_vars

\* The chain has happened: the login's token and the token of the first
\* rotation have both been rotated, a logout-all followed, and the token of
\* the second rotation, the only one that draws this answer here, has just
\* been answered "Token revoked".
C8_Witness ==
    /\ resp.op = "refresh" /\ resp.detail = <<"Token revoked">>
    /\ \E t1 \in rotated, t2 \in rotated, t3 \in killed \ rotated :
          /\ t1.jti < t2.jti /\ t2.jti < t3.jti
          /\ t1.sub = "id1" /\ t2.sub = "id1" /\ t3.sub = "id1"
          /\ \A token \in Presentable :
                Answer(token) = <<"Token revoked">> => token = t3

\* C9 (as written): a refresh call that returns a new pair has removed exactly
\* one row, the one with the jti presented, and added exactly one, under any
\* interleaving.
C9_RotationOneForOne ==
    [][\A p \in Calls :
          RefreshReturns(p)
          => /\ calls[p].rowcount = 1
             /\ RowsOf(store', calls[p].tok.jti) = {}
             /\ Cardinality(RowsOf(store', calls[p].refresh.jti)) = 1]_vars

\* C10: no two rows of the table share a token_jti, and a row keeps its
\* token_jti, user_id and expires_at from its creation to its deletion: a
\* step leaves a row as it is or removes it.
C10_UniqueAndImmutable ==
    /\ [](\A r1 \in store, r2 \in store :
             r1.token_jti = r2.token_jti => r1 = r2)
    /\ [][\A r1 \in store, r2 \in store' :
             r1.token_jti = r2.token_jti => r1 = r2]_vars

\* The random source has only ever returned one jti, one login has returned
\* and its row is in the table, and a second login that drew the same jti has
\* just been refused by the unique index.
C10_Witness ==
    /\ resp.op = "login" /\ resp.status = 500
    /\ Cardinality(used) = 1
    /\ Cardinality(IssuedRefresh) = 1
    /\ \A token \in IssuedRefresh :
          RowsOf(store, token.jti) =
             { [user_id |-> token.sub, token_jti |-> token.jti,
                expires_at |-> token.expires_at] }

\* The access tokens clients hold.
IssuedAccess == { token \in issued : token.typ = "access" }

\* C11: get_current_user does not depend on the refresh_tokens table: an
\* access token that was issued and has not expired resolves to its user,
\* whatever rows of that user logout, logout-all or rotation have removed;
\* and a rejected access check writes nothing.
C11_AccessStateless ==
    /\ [](\A token \in IssuedAccess :
             decode_access_token(token, now) = "ok"
             => get_current_user(token, now) = token.sub)
    /\ [][\A token \in Presentable :
             (LogoutAll(token) /\ get_current_user(token, now) = "401")
             => store' = store]_vars

\* A logout-all has just accepted an access token of a user who had been
\* issued refresh tokens and owned no row any more.
C11_Witness ==
    /\ resp.op = "logout_all" /\ resp.status = 200
    /\ resp.tokens_revoked = 0
    /\ IssuedRefresh # {}
    /\ store = {}

C13_IssueAtomic ==
    /\ [][\A p \in Sequential, j \in AnyJti :
             ( /\ ~unique_jti_ok(store, j)
               /\ \/ RefreshIssue(p, j)
                  \/ \E username \in TwoUsers, password \in Passwords :
                        /\ authenticate_user(username, password) # NoUser
                        /\ Login(p, username, password, j) )
             => /\ resp'.status = 500
                /\ calls'[p] = Idle
                /\ issued' = issued
                /\ store' = store]_vars
    /\ [][\A token \in issued' \ issued :
             token.typ = "refresh"
             => \E r \in store' : /\ r.token_jti = token.jti
                                  /\ r.user_id = token.sub]_vars

\* A login whose jti was taken by the row of the only token handed out so
\* far has just ended with a 500, and no further token was handed out.
C13_Witness ==
    /\ resp.op = "login" /\ resp.status = 500
    /\ Cardinality(used) = 1
    /\ Cardinality(issued) = 2
    /\ \E token \in IssuedRefresh : Cardinality(RowsOf(store, token.jti)) = 1
    /\ calls[1] = Idle

\* C14 (as written): when the row of the presented jti is found and its
\* expires_at <= now, the boundary expires_at = now included, the call deletes
\* the row and ends with "Token expired", issuing nothing.
C14_ExpiredAtBoundary ==
    [][\A p \in Sequential :
          (RefreshRevoke(p) /\ calls[p].db_token.expires_at <= now)
          => /\ resp' = Respond("refresh", 401, <<"Token expired">>)
             /\ calls'[p] = Idle
             /\ RowsOf(store', calls[p].tok.jti) = {}]_vars

\* The token does not get as far as the lookup of its row: jwt.decode raises,
\* or the type claim or the payload is refused.
FailsDecoding(token) ==
    \/ decode_refresh_token(token, now) # "ok"
    \/ token.typ # "refresh"
    \/ token.sub = "none" \/ token.jti = 0

\* C15 (as written): any two presented strings that fail decoding as a
\* refresh token get the same answer from refresh, whatever the cause; and
\* any two access tokens get_current_user rejects get the same answer.
C15_NoValidityOracle ==
    /\ \A t1 \in Presentable \ {NoTok}, t2 \in Presentable \ {NoTok} :
          (FailsDecoding(t1) /\ FailsDecoding(t2)) => Answer(t1) = Answer(t2)
    /\ \A t1 \in Presentable, t2 \in Presentable :
          ( /\ get_current_user(t1, now) \notin {t1.sub}
            /\ get_current_user(t2, now) \notin {t2.sub} )
          => get_current_user(t1, now) = get_current_user(t2, now)

\* C16 (as written): an INSERT that fails because the jti is taken does not
\* surface as an error at once (the operation tries again with another jti),
\* and a collision during rotation does not leave the user with the old row
\* deleted and no new row.
C16_CollisionRecovery ==
    [][\A p \in Sequential, j \in AnyJti :
          ( /\ ~unique_jti_ok(store, j)
            /\ \/ RefreshIssue(p, j)
               \/ \E username \in TwoUsers, password \in Passwords :
                     /\ authenticate_user(username, password) # NoUser
                     /\ Login(p, username, password, j) )
          => /\ resp'.status # 500
             /\ calls[p].rowcount = 1
                   => \E r \in store' : /\ r.user_id = calls[p].user_id
                                        /\ \/ r = calls[p].db_token
                                           \/ r = calls'[p].db_obj]_vars

\* C17 (as written): what a repository method of a request has changed is
\* not in the committed table while the request is still in flight: a step
\* of a request that does not end it leaves the committed table as it was.
C17_NoOwnCommit ==
    [][\A p \in Sequential :
          ( /\ calls'[p] # Idle
            /\ \/ RefreshRevoke(p)
               \/ \E j \in JTIs : RefreshIssue(p, j)
               \/ \E username \in OneUser, password \in Passwords, j \in JTIs :
                     Login(p, username, password, j) )
          => store' = store]_vars

\* C18: revoke_by_jti(j) returns 1 and removes the row when a row with jti j
\* exists, returns 0 and changes nothing when none exists, and after it a
\* second revoke_by_jti(j) returns 0 and changes nothing; a logout with a
\* token that decodes and has no row answers success and changes nothing.
C18_RevokeIdempotent ==
    /\ [](\A j \in JTIs :
             LET after == revoke_by_jti(store, j)
             IN  /\ RowsOf(store, j) # {}
                    => /\ revoke_by_jti_rowcount(store, j) = 1
                       /\ after = store \ RowsOf(store, j)
                       /\ after # store
                 /\ RowsOf(store, j) = {}
                    => /\ revoke_by_jti_rowcount(store, j) = 0
                       /\ after = store
                 /\ revoke_by_jti_rowcount(after, j) = 0
                 /\ revoke_by_jti(after, j) = after)
    /\ [][\A p \in Sequential :
             RefreshRevoke(p)
             => /\ store' = revoke_by_jti(store, calls[p].tok.jti)
                /\ calls'[p] # Idle
                      => calls'[p].rowcount =
                            Cardinality(RowsOf(store, calls[p].tok.jti))]_vars
    /\ [][\A token \in IssuedRefresh :
             (Logout(token) /\ Decodes(token) /\ RowsOf(store, token.jti) = {})
             => /\ resp' = Respond("logout", 200, <<"Successfully logged out">>)
                /\ store' = store]_vars

\* The row of a token was removed by a logout while a refresh of that token
\* was in flight, and the DELETE of the refresh, the second one for that jti,
\* has returned 0.
C18_Witness ==
    \E p \in Sequential :
        /\ calls[p].pc = "revoked"
        /\ calls[p].rowcount = 0
        /\ RowsOf(store, calls[p].tok.jti) = {}

\* The rows a user owns.
OwnedBy(table, user_id) == { r \in table : r.user_id = user_id }

\* C19: a logout-all of user u answers with exactly the number of rows u
\* owned (0 if none, without error), leaves no row of u and leaves the rows
\* of every other user as they were.
C19_BulkRevoke ==
    [][\A token \in Presentable :
          (LogoutAll(token) /\ get_current_user(token, now) # "401")
          => LET u == get_current_user(token, now)
             IN  /\ resp'.status = 200
                 /\ resp'.tokens_revoked = Cardinality(OwnedBy(store, u))
                 /\ OwnedBy(store', u) = {}
                 /\ \A v \in {"id1", "id2"} \ {u} :
                       OwnedBy(store', v) = OwnedBy(store, v)]_vars

\* A logout-all has just removed the two rows of one user and left the row
\* of the other.
C19_Witness ==
    /\ resp.op = "logout_all" /\ resp.status = 200
    /\ resp.tokens_revoked = 2
    /\ store # {}

\* C20: a login with an unknown username or a password that is not the
\* user's ends with 401 "Incorrect username or password", hands out no token
\* and leaves the table as it was.
C20_FailedLoginNoEffect ==
    [][\A p \in Sequential, username \in OneUser, password \in Passwords,
          j \in JTIs :
          ( /\ Login(p, username, password, j)
            /\ ~\E u \in UserTable :
                  /\ u.username = username
                  /\ u.hashed_password = hash_password(password) )
          => /\ resp' = Respond("login", 401,
                                <<"Incorrect username or password">>)
             /\ store' = store
             /\ issued' = issued
             /\ calls' = calls]_vars

\* A login has just been refused while the table held a row.
C20_Witness ==
    /\ resp.op = "login" /\ resp.status = 401
    /\ resp.detail = <<"Incorrect username or password">>
    /\ store # {}

\* C21: a logout whose token decodes and whose DELETE fails answers with an
\* error, and no logout answers "Successfully logged out" while the record of
\* the jti it was to delete is still in the table.
C21_LogoutFailsClosed ==
    /\ [][\A token \in Presentable, committed \in BOOLEAN :
             LogoutDbError(token, committed)
             => /\ resp'.status >= 500
                /\ resp'.detail # <<"Successfully logged out">>]_vars
    /\ [][\A token \in Presentable :
             ( /\ logout_jti(token, now) # 0
               /\ resp'.op = "logout"
               /\ resp'.detail = <<"Successfully logged out">>
               /\ \/ Logout(token)
                  \/ \E committed \in BOOLEAN : LogoutDbError(token, committed) )
             => RowsOf(store', logout_jti(token, now)) = {}]_vars

\* A logout has just failed with a 500 and the record it was to delete is
\* still in the table.
C21_Witness ==
    /\ resp.op = "logout" /\ resp.status = 500
    /\ \E token \in IssuedRefresh :
          /\ Decodes(token)
          /\ store = { [user_id |-> token.sub, token_jti |-> token.jti,
                        expires_at |-> token.expires_at] }

\* C22: once the change of a login, refresh or logout is committed, a
\* cancellation or failure of the request before its response does not take
\* it back: an app request that dies leaves the table as it is, a logout
\* whose commit went through and whose acknowledgement was lost has removed
\* the record, and the rollback of a legacy handler, in an except branch or
\* as the session closes, leaves every committed record, the one the request
\* has just committed included.
C22_CommitSurvives ==
    /\ [][\A p \in Sequential : Crash(p) => store' = store]_vars
    /\ [][\A token \in Presentable :
             LogoutDbError(token, TRUE)
             => store' = revoke_by_jti(store, logout_jti(token, now))]_vars
    /\ [][\A p \in Sequential, raised \in Raised :
             LegacyAbort(p, raised)
             => /\ store' = store
                /\ (calls[p].pc = "committed" /\ calls[p].db_obj \in store)
                      => calls[p].db_obj \in store']_vars

\* A legacy refresh has failed with a 500 after its commit: the table holds
\* the new record, whose token no client was given.
C22_Witness ==
    /\ LegacyDeployed
    /\ resp.op = "refresh" /\ resp.status = 500
    /\ \E r \in store : \A token \in issued : token.jti # r.token_jti

\* C24 (as written): the legacy refresh handler answers 401 "Token revoked"
\* to a refresh token that decodes and whose jti has no record, and commits
\* a new pair only when its DELETE found the record.
C24_LegacyChecksStore ==
    /\ [][\A p \in Sequential, token \in IssuedRefresh :
             ( /\ LegacyVerify(p, token)
               /\ Decodes(token)
               /\ RowsOf(store, token.jti) = {} )
             => resp'.status = 401]_vars
    /\ [][\A p \in Sequential, j \in AnyJti :
             (LegacyCommit(p, j) /\ calls'[p].pc = "committed")
             => calls[p].rowcount = 1]_vars

\* C25: in the legacy refresh handler revoke_token commits nothing; the one
\* commit replaces the old record by the new one in a single step, or fails
\* and leaves the table as it was; a rollback leaves the table as it was.
C25_LegacyOneTransaction ==
    /\ [][\A p \in Sequential : LegacyRevoke(p) => store' = store]_vars
    /\ [][\A p \in Sequential, j \in AnyJti :
             LegacyCommit(p, j)
             => \/ /\ calls'[p].pc = "committed"
                   /\ store' = (store \ RowsOf(store, calls[p].tok.jti))
                                  \cup {calls'[p].db_obj}
                   /\ calls'[p].db_obj.token_jti = j
                   /\ calls'[p].db_obj.user_id = calls[p].tok.sub
                \/ /\ resp'.status = 500
                   /\ calls'[p] = Idle
                   /\ store' = store]_vars
    /\ [][\A p \in Sequential, raised \in Raised :
             (LegacyAbort(p, raised) /\ calls[p].pc # "committed")
             => store' = store]_vars

\* A legacy refresh has failed with a 500 and every refresh token that was
\* handed out still has its record: the old record is there, no new one.
C25_Witness ==
    /\ resp.op = "refresh" /\ resp.status = 500
    /\ Cardinality(store) = 2
    /\ \A token \in IssuedRefresh : RowsOf(store, token.jti) # {}
    /\ \A r \in store : \E token \in IssuedRefresh : token.jti = r.token_jti

\* C23 (as written): the record of a jti that was drawn and is no longer in
\* the table never comes back, and a refresh returns a new pair only if its
\* own DELETE removed the record: otherwise the record had been deleted
\* before (by a logout or a logout-all) and a refresh with that jti succeeds
\* after the deletion.
C23_DeletionTerminal ==
    /\ [][\A j \in JTIs :
             (j \in used /\ RowsOf(store, j) = {}) => RowsOf(store', j) = {}]_vars
    /\ [][\A p \in Sequential :
             RefreshReturns(p) => calls[p].rowcount = 1]_vars

\* C26 (as written): a refresh of T whose record was removed after its lookup
\* by a logout (its own DELETE found nothing, and no logout-all covers T)
\* does not succeed, so no record descends from T.
C26_LogoutWinsRace ==
    [][\A p \in Sequential :
          ( /\ Reload(p)
            /\ calls[p].op = "refresh"
            /\ calls[p].rowcount = 0
            /\ calls[p].tok \notin killed )
          => /\ resp'.status # 200
             /\ calls[p].db_obj \notin store']_vars

\* C27 (as written): when a logout-all of u has completed while a refresh of
\* one of u's tokens was in flight (no login can start meanwhile: the slot is
\* taken), the table holds no record of u once the refresh has completed.
C27_LogoutAllNotEscaped ==
    [][\A p \in Sequential :
          ( /\ Reload(p)
            /\ calls[p].op = "refresh"
            /\ calls[p].tok \in killed )
          => OwnedBy(store', calls[p].user_id) = {}]_vars

\* C28: a refresh that is rejected for any reason but "Token expired" leaves
\* the table as it was, and a refresh rejected with "Token expired" removes
\* the expired record it had read and nothing else.
C28_RejectedRefreshNoEffect ==
    /\ [][( /\ resp'.op = "refresh"
            /\ resp'.status = 401
            /\ resp'.detail # <<"Token expired">> )
          => store' = store]_vars
    /\ [][\A p \in Sequential, token \in Presentable :
             (RefreshLookup(p, token) /\ refresh_reject(token, store, now) # <<>>)
             => /\ resp' = Respond("refresh", 401,
                                   refresh_reject(token, store, now))
                /\ store' = store]_vars
    /\ [][\A p \in Sequential :
             (RefreshRevoke(p) /\ resp'.status = 401)
             => /\ resp'.detail = <<"Token expired">>
                /\ store_expired(calls[p].db_token, now)
                /\ store' = store \ {calls[p].db_token}]_vars

\* A refresh has just been rejected with "Token expired": the record of its
\* token is gone and another record is still there.
C28_Witness ==
    /\ resp.op = "refresh" /\ resp.status = 401
    /\ resp.detail = <<"Token expired">>
    /\ store # {}
    /\ \E token \in IssuedRefresh :
          Decodes(token) /\ RowsOf(store, token.jti) = {}

\* C29: the DELETE of a refresh of T and a logout with T remove the record of
\* T's jti and no other, the insert of a rotation adds one record and removes
\* none, and every other refresh token that was usable stays usable.
C29_SessionsIndependent ==
    /\ [][\A p \in Sequential :
             RefreshRevoke(p)
             => store' = store \ RowsOf(store, calls[p].tok.jti)]_vars
    /\ [][\A p \in Sequential, j \in JTIs :
             RefreshIssue(p, j)
             => /\ store \subseteq store'
                /\ store' \ store \subseteq RowsOf(store', j)
                /\ Cardinality(store' \ store) <= 1]_vars
    /\ [][\A token \in Presentable :
             Logout(token)
             => store' = store \ RowsOf(store, logout_jti(token, now))]_vars
    /\ [][\A other \in IssuedRefresh :
             ( /\ Answer(other) = <<>>
               /\ \/ \E p \in Sequential :
                        /\ calls[p].tok.jti # other.jti
                        /\ \/ RefreshRevoke(p)
                           \/ \E j \in JTIs : RefreshIssue(p, j)
                           \/ Reload(p)
                  \/ \E token \in Presentable :
                        /\ logout_jti(token, now) # other.jti
                        /\ Logout(token) )
             => refresh_reject(other, store', now') = <<>>]_vars

\* A rotation has just returned its new pair while the record of another
\* login of the same user is in the table, and both tokens are usable.
C29_Witness ==
    /\ resp.op = "refresh" /\ resp.status = 200
    /\ Cardinality({ token \in IssuedRefresh : Answer(token) = <<>> }) = 2
    /\ \A r \in store : r.user_id = "id1"

\* The refresh tokens clients hold and those a request in flight has made.
KnownRefresh ==
    (IssuedRefresh \cup { calls[p].refresh : p \in Calls }) \ {NoTok}

\* C30: every record's user_id is the sub of the refresh token that carries
\* the record's jti, and the pair a refresh of T returns carries the sub of T,
\* which is the user_id of the record of T that was read and of the record
\* that was inserted.
C30_SubjectPreserved ==
    /\ [](\A r \in store, token \in KnownRefresh :
             token.jti = r.token_jti => token.sub = r.user_id)
    /\ [][\A p \in Sequential :
             RefreshReturns(p)
             => /\ calls[p].access.sub = calls[p].tok.sub
                /\ calls[p].refresh.sub = calls[p].tok.sub
                /\ calls[p].db_token.user_id = calls[p].tok.sub
                /\ calls[p].db_obj.user_id = calls[p].tok.sub
                /\ {calls[p].access, calls[p].refresh} \subseteq issued']_vars

\* The second user's token has just been rotated while the first user holds a
\* record too.
C30_Witness ==
    /\ resp.op = "refresh" /\ resp.status = 200
    /\ OwnedBy(store, "id1") # {}
    /\ OwnedBy(store, "id2") # {}
    /\ \E token \in rotated : token.sub = "id2"

\* The clock values of the model.
Clock == 0..MaxTime

====
